---- MODULE Spec2Model ----
(***************************************************************************)
(* Model of dat_file_processor.py: a linear batch pipeline that discovers  *)
(* the .dat files of a directory, reads them, removes duplicate rows,      *)
(* appends a gross salary to every retained row, computes the second       *)
(* highest and the average gross salary and writes a workbook.             *)
(*                                                                         *)
(* A string is a sequence of one-character strings, so that endswith and   *)
(* int() are computed character by character.  A row is a sequence of      *)
(* strings; a derived row is a row followed by one integer.                *)
(***************************************************************************)
EXTENDS Integers, Sequences, FiniteSets, TLC

(***************************************************************************)
(* Bounds of the model.                                                    *)
(***************************************************************************)
\* at most this many data rows in all the files of one run together
MaxTotalRows == 3

(***************************************************************************)
(* Strings.                                                                *)
(***************************************************************************)
Digits == <<"0", "1", "2", "3", "4", "5", "6", "7", "8", "9">>

IsDigit(c) == \E d \in 1..10 : Digits[d] = c

DigitValue(c) == (CHOOSE d \in 1..10 : Digits[d] = c) - 1

\* a variant of endswith that leaves out the first character of the suffix
EndsWith_IgnoresDot(s, suffix) ==
    /\ Len(s) >= Len(suffix) - 1
    /\ SubSeq(s, Len(s) - Len(suffix) + 2, Len(s)) = Tail(suffix)

\* str.endswith(suffix)
EndsWith(s, suffix) ==
    /\ Len(s) >= Len(suffix)
    /\ SubSeq(s, Len(s) - Len(suffix) + 1, Len(s)) = suffix

DatSuffix == <<".", "d", "a", "t">>

\* str.strip() as int() applies it: leading and trailing blanks are dropped
RECURSIVE LStrip(_)
LStrip(s) == IF s # <<>> /\ Head(s) = " " THEN LStrip(Tail(s)) ELSE s

RECURSIVE RStrip(_)
RStrip(s) ==
    IF s # <<>> /\ s[Len(s)] = " " THEN RStrip(SubSeq(s, 1, Len(s) - 1)) ELSE s

\* the digit part of an integer literal: digits, single underscores between them
IsDigitBody(b) ==
    /\ b # <<>>
    /\ IsDigit(b[1])
    /\ IsDigit(b[Len(b)])
    /\ \A i \in 1..Len(b) : IsDigit(b[i]) \/ b[i] = "_"
    /\ \A i \in 1..(Len(b) - 1) : ~(b[i] = "_" /\ b[i + 1] = "_")

RECURSIVE DigitBodyValue(_)
DigitBodyValue(b) ==
    IF b = <<>> THEN 0
    ELSE LET last == b[Len(b)]
             front == SubSeq(b, 1, Len(b) - 1)
         IN  IF last = "_" THEN DigitBodyValue(front)
             ELSE 10 * DigitBodyValue(front) + DigitValue(last)

\* int(s) for a str: [ok |-> FALSE] stands for ValueError
PyInt(s) ==
    LET t == RStrip(LStrip(s))
        signed == t # <<>> /\ t[1] \in {"+", "-"}
        body == IF signed THEN Tail(t) ELSE t
    IN  IF IsDigitBody(body)
        THEN [ok |-> TRUE,
              val |-> IF signed /\ t[1] = "-" THEN 0 - DigitBodyValue(body)
                      ELSE DigitBodyValue(body)]
        ELSE [ok |-> FALSE, val |-> 0]

(***************************************************************************)
(* The inputs of the model: names, headers and rows.                       *)
(***************************************************************************)
\* "a.dat", "b.dat"
DatNames == << <<"a">> \o DatSuffix, <<"b">> \o DatSuffix >>

\* names that do not end in ".dat": "a.txt", "dat", "a.data"
OtherNames == << <<"a", ".", "t", "x", "t">>, <<"d", "a", "t">>,
                 <<"a", ".", "d", "a", "t", "a">> >>

\* The listings os.listdir can return: an empty directory, one without a
\* .dat name, and directories with one and with two .dat names.  The order of
\* the names is immaterial to the model, since the content of a file is drawn
\* when the file is read.
Listings ==
    { <<>>,
      OtherNames,
      <<OtherNames[1], DatNames[1]>>,
      <<DatNames[1], OtherNames[3], DatNames[2], OtherNames[2]>> }

Header1 == <<"Id", "Name", "Dept", "City", "Grade", "Basic", "Allowances">>
Header2 == <<"Id", "Name", "Dept", "City", "Grade", "Basic", "Bonus">>
Headers == {Header1, Header2}

GrossSalaryColumn == "Gross Salary"

Prefix == << <<"7">>, <<"n">>, <<"d">>, <<"c">>, <<"g">> >>

\* gross salary 100
RowA == Prefix \o << <<"1", "0", "0">>, <<"0">> >>
\* gross salary 200
RowB == Prefix \o << <<"2", "0", "0">>, <<"0">> >>
\* gross salary 200 again, written with a blank, a sign and an underscore
RowC == Prefix \o << <<" ", "1", "0", "0">>, <<"+", "1", "_", "0", "0">> >>
\* eight fields, gross salary 3500
RowD == Prefix \o << <<"3", "0", "0", "0">>, <<"5", "0", "0">>, <<"x">> >>
\* allowances "abc"
RowV == Prefix \o << <<"3", "0", "0">>, <<"a", "b", "c">> >>
\* six fields, field 5 an integer
RowS == Prefix \o << <<"1", "0", "0">> >>
\* six fields, field 5 not an integer
RowSV == Prefix \o << <<"a", "b", "c">> >>

\* a blank line: no field
RowE == <<>>

RowUniverse == {RowA, RowB, RowC, RowD, RowV, RowS, RowSV, RowE}

RowSeqs(n) == UNION { [1..k -> RowUniverse] : k \in 0..n }

\* What open() and csv.reader find for one path.
FileContents(n) ==
    { [kind |-> "missing", header |-> <<>>, rows |-> <<>>],
      [kind |-> "empty", header |-> <<>>, rows |-> <<>>] }
    \cup { [kind |-> "ok", header |-> h, rows |-> rs] :
             h \in Headers, rs \in RowSeqs(n) }

(***************************************************************************)
(* Python sequences: 0-based and negative indices.                         *)
(***************************************************************************)
\* seq[i] succeeds
HasItem(seq, i) == IF i >= 0 THEN i < Len(seq) ELSE 0 - i <= Len(seq)

\* seq[i]
Item(seq, i) == IF i >= 0 THEN seq[i + 1] ELSE seq[Len(seq) + i + 1]

RECURSIVE SumSeq(_)
SumSeq(seq) == IF seq = <<>> THEN 0 ELSE Head(seq) + SumSeq(Tail(seq))

SetMin(S) == CHOOSE m \in S : \A x \in S : m <= x

\* list(sorted(S)): the elements of S in ascending order
RECURSIVE SortedList(_)
SortedList(S) ==
    IF S = {} THEN <<>> ELSE <<SetMin(S)>> \o SortedList(S \ {SetMin(S)})

\* round(num / den, 1) in tenths: 10 * num / den rounded to the nearest
\* integer, a tie to the even one.  Python rounds the float nearest to
\* num / den, whose ties are the true ties as long as den < 20 (a tie then
\* has the fraction .25 or .75, which a float holds exactly).
RoundTenths(num, den) ==
    LET q == (10 * num) \div den
        r == 10 * num - q * den
    IN  IF 2 * r < den THEN q
        ELSE IF 2 * r > den THEN q + 1
        ELSE IF q % 2 = 0 THEN q ELSE q + 1

(***************************************************************************)
(* The exceptions of the program.                                          *)
(***************************************************************************)
NoError == "none"
\* bare raise outside an except block (NoInputFiles)
RuntimeError == "RuntimeError"
\* FileNotFound
FileNotFoundError == "FileNotFoundError"
\* next(reader) on a file without a line (ReadError)
StopIteration == "StopIteration"
\* ValueConversion
ValueError == "ValueError"
\* MissingField in the merge, InsufficientData in the statistics
IndexError == "IndexError"
\* EmptyInput
ZeroDivisionError == "ZeroDivisionError"
\* any exception of the workbook (WriteError)
WorkbookError == "WorkbookError"

(***************************************************************************)
(* read_dat_file                                                           *)
(***************************************************************************)
read_dat_file(content) ==
    IF content.kind = "missing"
    THEN [err |-> FileNotFoundError, headers |-> <<>>, rows |-> <<>>]
    ELSE IF content.kind = "empty"
    THEN [err |-> StopIteration, headers |-> <<>>, rows |-> <<>>]
    ELSE [err |-> NoError, headers |-> content.header, rows |-> content.rows]

(***************************************************************************)
(* combine_deduplicate_and_calculate_salary                                *)
(***************************************************************************)
BasicSalaryIndex == 5
AllowancesIndex == 6

\* line 48, with a forgetful variant: the row is not recorded as seen
MarkSeen_Forgets(acc, row) == acc

MarkSeen(acc, row) == [acc EXCEPT !.unique_rows_set = @ \cup {row}]

\* line 52, with a variant that leaves the allowances out
CombinedSalary_BasicOnly(row) == PyInt(Item(row, BasicSalaryIndex)).val

CombinedSalary(row) ==
    PyInt(Item(row, BasicSalaryIndex)).val + PyInt(Item(row, AllowancesIndex)).val

\* line 54, with a variant that puts the new row first
AddRow_Prepends(combined_rows, drow) == <<drow>> \o combined_rows

AddRow(combined_rows, drow) == Append(combined_rows, drow)

\* lines 49-60, with a variant that logs a malformed row and goes on
Convert_SkipsMalformed(acc, row) ==
    LET started == [acc EXCEPT !.computed = @ + 1]
    IN  IF Len(row) > AllowancesIndex
           /\ PyInt(Item(row, BasicSalaryIndex)).ok
           /\ PyInt(Item(row, AllowancesIndex)).ok
        THEN [started EXCEPT !.combined_rows =
                                 AddRow(@, Append(row, CombinedSalary(row)))]
        ELSE started

\* lines 49-60: int(row[5]) is evaluated before int(row[6]).  computed counts
\* the executions of the gross salary computation.
Convert(acc, row) ==
    LET started == [acc EXCEPT !.computed = @ + 1]
    IN  IF ~HasItem(row, BasicSalaryIndex)
        THEN [started EXCEPT !.err = IndexError]
        ELSE IF ~PyInt(Item(row, BasicSalaryIndex)).ok
        THEN [started EXCEPT !.err = ValueError]
        ELSE IF ~HasItem(row, AllowancesIndex)
        THEN [started EXCEPT !.err = IndexError]
        ELSE IF ~PyInt(Item(row, AllowancesIndex)).ok
        THEN [started EXCEPT !.err = ValueError]
        ELSE [started EXCEPT !.combined_rows =
                                 AddRow(@, Append(row, CombinedSalary(row)))]

\* lines 46-60: the body of the inner loop for one row
ProcessRow(acc, row) ==
    IF row \in acc.unique_rows_set THEN acc
    ELSE Convert(MarkSeen(acc, row), row)

\* for row in rows
RECURSIVE CombineRows(_, _)
CombineRows(acc, rows) ==
    IF rows = <<>> \/ acc.err # NoError THEN acc
    ELSE CombineRows(ProcessRow(acc, Head(rows)), Tail(rows))

\* for rows in all_rows
RECURSIVE CombineFiles(_, _)
CombineFiles(acc, files) ==
    IF files = <<>> \/ acc.err # NoError THEN acc
    ELSE CombineFiles(CombineRows(acc, Head(files)), Tail(files))

combine_deduplicate_and_calculate_salary(rows_of_files) ==
    CombineFiles([unique_rows_set |-> {}, combined_rows |-> <<>>,
                  computed |-> 0, err |-> NoError], rows_of_files)

(***************************************************************************)
(* calculate_salaries; the average is held in tenths                       *)
(***************************************************************************)
\* sorted(salaries), the list with its repetitions
RECURSIVE SortedWithRepetitions(_)
SortedWithRepetitions(seq) ==
    IF seq = <<>> THEN <<>>
    ELSE LET i == CHOOSE i \in 1..Len(seq) : \A j \in 1..Len(seq) : seq[i] <= seq[j]
         IN  <<seq[i]>> \o SortedWithRepetitions(
                 SubSeq(seq, 1, i - 1) \o SubSeq(seq, i + 1, Len(seq)))

\* line 70, with a variant that sorts the list instead of the set
UniqueSalaries_KeepsRepetitions(salaries) == SortedWithRepetitions(salaries)

UniqueSalaries(salaries) == SortedList({salaries[i] : i \in 1..Len(salaries)})

\* line 72, with a variant that averages the distinct values
Average_OfDistinct(salaries) ==
    LET distinct == UniqueSalaries(salaries)
    IN  RoundTenths(SumSeq(distinct), Len(distinct))

Average(salaries) == RoundTenths(SumSeq(salaries), Len(salaries))

\* a variant of calculate_salaries that computes the average first
calculate_salaries_AverageFirst(rows) ==
    LET salaries == [i \in 1..Len(rows) |-> Item(rows[i], -1)]
        unique_salaries == UniqueSalaries(salaries)
    IN  IF Len(salaries) = 0
        THEN [err |-> ZeroDivisionError, second_highest_salary |-> 0,
              average_salary |-> 0]
        ELSE IF ~HasItem(unique_salaries, -2)
        THEN [err |-> IndexError, second_highest_salary |-> 0,
              average_salary |-> 0]
        ELSE [err |-> NoError,
              second_highest_salary |-> Item(unique_salaries, -2),
              average_salary |-> Average(salaries)]

\* lines 69-73: unique_salaries[-2] is evaluated before the division
calculate_salaries(rows) ==
    LET salaries == [i \in 1..Len(rows) |-> Item(rows[i], -1)]
        unique_salaries == UniqueSalaries(salaries)
    IN  IF ~HasItem(unique_salaries, -2)
        THEN [err |-> IndexError, second_highest_salary |-> 0,
              average_salary |-> 0]
        ELSE IF Len(salaries) = 0
        THEN [err |-> ZeroDivisionError, second_highest_salary |-> 0,
              average_salary |-> 0]
        ELSE [err |-> NoError,
              second_highest_salary |-> Item(unique_salaries, -2),
              average_salary |-> Average(salaries)]

(***************************************************************************)
(* write_to_csv: the workbook it leaves when it succeeds                   *)
(***************************************************************************)
NoFile == [kind |-> "none"]
PartialFile == [kind |-> "partial"]

write_to_csv(headers, rows, second, average) ==
    [kind |-> "workbook", header |-> headers, rows |-> rows,
     second_highest_salary |-> second, average_salary |-> average]

(***************************************************************************)
(* main                                                                    *)
(***************************************************************************)
VARIABLES
    pc,                     \* the step main is at
    stages,                 \* the steps main has entered, in order
    err,                    \* the exception that ended the run
    listing,                \* what os.listdir returns for the input directory
    input_files,            \* the paths that end in ".dat"
    disk,                   \* the content found at each path read so far
    all_headers,
    all_rows,
    warned,                 \* the header warning has been logged
    dirExisted,             \* result/ existed before the run
    dirExists,              \* result/ exists
    unique_rows,
    computed,               \* gross salary computations of the merge
    headers1,
    second_highest_salary,
    average_salary,         \* in tenths
    outFile                 \* result/combined_data.csv

vars == <<pc, stages, err, listing, input_files, disk, all_headers, all_rows,
          warned, dirExisted, dirExists, unique_rows, computed, headers1,
          second_highest_salary, average_salary, outFile>>

Init ==
    /\ pc = "Discover"
    /\ stages = <<"Discover">>
    /\ err = NoError
    /\ listing \in Listings
    /\ input_files = <<>>
    /\ disk = <<>>
    /\ all_headers = <<>>
    /\ all_rows = <<>>
    /\ warned = FALSE
    /\ dirExisted \in BOOLEAN
    /\ dirExists = dirExisted
    /\ unique_rows = <<>>
    /\ computed = 0
    /\ headers1 = <<>>
    /\ second_highest_salary = 0
    /\ average_salary = 0
    /\ outFile = NoFile

Goto(step) == pc' = step /\ stages' = Append(stages, step)

Fail(e) == Goto("Failed") /\ err' = e

\* [file for file in listing if file.endswith(".dat")], in listing order
RECURSIVE DatFiles(_)
DatFiles(names) ==
    IF names = <<>> THEN <<>>
    ELSE IF EndsWith(Head(names), DatSuffix)
    THEN <<Head(names)>> \o DatFiles(Tail(names))
    ELSE DatFiles(Tail(names))

RowsRead == SumSeq([i \in 1..Len(all_rows) |-> Len(all_rows[i])])

\* lines 130-137
Discover ==
    /\ pc = "Discover"
    /\ input_files' = DatFiles(listing)
    /\ IF input_files' = <<>> THEN Fail(RuntimeError)
       ELSE Goto("ReadAll") /\ err' = err
    /\ UNCHANGED <<listing, disk, all_headers, all_rows, warned, dirExisted,
                   dirExists, unique_rows, computed, headers1,
                   second_highest_salary, average_salary, outFile>>

\* lines 143-146: one turn of the loop over input_files
ReadFile ==
    /\ pc = "ReadAll"
    /\ Len(all_headers) < Len(input_files)
    /\ \E content \in FileContents(MaxTotalRows - RowsRead) :
          LET got == read_dat_file(content)
          IN  /\ disk' = Append(disk, content)
              /\ IF got.err # NoError
                 THEN Fail(got.err) /\ UNCHANGED <<all_headers, all_rows>>
                 ELSE /\ all_headers' = Append(all_headers, got.headers)
                      /\ all_rows' = Append(all_rows, got.rows)
                      /\ UNCHANGED <<pc, stages, err>>
    /\ UNCHANGED <<listing, input_files, warned, dirExisted, dirExists,
                   unique_rows, computed, headers1, second_highest_salary,
                   average_salary, outFile>>

HeadersMatch(headers) == \A i \in 1..Len(headers) : headers[i] = headers[1]

\* a variant of the header check that refuses headers that differ
CheckHeaders_Refuses ==
    /\ pc = "ReadAll"
    /\ Len(all_headers) = Len(input_files)
    /\ warned' = ~HeadersMatch(all_headers)
    /\ IF warned' THEN Fail(ValueError) ELSE Goto("EnsureDir") /\ err' = err
    /\ UNCHANGED <<listing, input_files, disk, all_headers, all_rows,
                   dirExisted, dirExists, unique_rows, computed, headers1,
                   second_highest_salary, average_salary, outFile>>

\* lines 148-152, once the loop is over
CheckHeaders ==
    /\ pc = "ReadAll"
    /\ Len(all_headers) = Len(input_files)
    /\ warned' = ~HeadersMatch(all_headers)
    /\ Goto("EnsureDir")
    /\ UNCHANGED <<err, listing, input_files, disk, all_headers, all_rows,
                   dirExisted, dirExists, unique_rows, computed, headers1,
                   second_highest_salary, average_salary, outFile>>

\* lines 154-158 and ensure_directory_exists
EnsureDirectory ==
    /\ pc = "EnsureDir"
    /\ dirExists' = TRUE
    /\ Goto("Merge")
    /\ UNCHANGED <<err, listing, input_files, disk, all_headers, all_rows,
                   warned, dirExisted, unique_rows, computed, headers1,
                   second_highest_salary, average_salary, outFile>>

\* a variant of the merge step that saves the rows it has when the merge raises
Merge_SavesOnError ==
    /\ pc = "Merge"
    /\ LET got == combine_deduplicate_and_calculate_salary(all_rows)
       IN  /\ computed' = got.computed
           /\ IF got.err # NoError
              THEN Fail(got.err) /\ outFile' = PartialFile /\ UNCHANGED unique_rows
              ELSE /\ unique_rows' = got.combined_rows
                   /\ Goto("Header")
                   /\ err' = err
                   /\ outFile' = outFile
    /\ UNCHANGED <<listing, input_files, disk, all_headers, all_rows, warned,
                   dirExisted, dirExists, headers1, second_highest_salary,
                   average_salary>>

\* line 161
Merge ==
    /\ pc = "Merge"
    /\ LET got == combine_deduplicate_and_calculate_salary(all_rows)
       IN  /\ computed' = got.computed
           /\ IF got.err # NoError
              THEN Fail(got.err) /\ UNCHANGED unique_rows
              ELSE /\ unique_rows' = got.combined_rows
                   /\ Goto("Header")
                   /\ err' = err
    /\ UNCHANGED <<listing, input_files, disk, all_headers, all_rows, warned,
                   dirExisted, dirExists, headers1, second_highest_salary,
                   average_salary, outFile>>

\* lines 164-165: headers1 is all_headers[0] itself, which the append changes
AppendGrossSalaryHeader ==
    /\ pc = "Header"
    /\ headers1' = Append(all_headers[1], GrossSalaryColumn)
    /\ all_headers' = [all_headers EXCEPT ![1] = headers1']
    /\ Goto("Stat")
    /\ UNCHANGED <<err, listing, input_files, disk, all_rows, warned,
                   dirExisted, dirExists, unique_rows, computed,
                   second_highest_salary, average_salary, outFile>>

\* line 168
Stat ==
    /\ pc = "Stat"
    /\ LET got == calculate_salaries(unique_rows)
       IN  IF got.err # NoError
           THEN Fail(got.err)
                /\ UNCHANGED <<second_highest_salary, average_salary>>
           ELSE /\ second_highest_salary' = got.second_highest_salary
                /\ average_salary' = got.average_salary
                /\ Goto("Write")
                /\ err' = err
    /\ UNCHANGED <<listing, input_files, disk, all_headers, all_rows, warned,
                   dirExisted, dirExists, unique_rows, computed, headers1,
                   outFile>>

\* lines 171-173: the workbook is written, or the write raises and leaves
\* no file or an incomplete one
Write ==
    /\ pc = "Write"
    /\ \/ /\ outFile' = write_to_csv(headers1, unique_rows,
                                     second_highest_salary, average_salary)
          /\ Goto("Done")
          /\ err' = err
       \/ /\ outFile' \in {NoFile, PartialFile}
          /\ Fail(WorkbookError)
    /\ UNCHANGED <<listing, input_files, disk, all_headers, all_rows, warned,
                   dirExisted, dirExists, unique_rows, computed, headers1,
                   second_highest_salary, average_salary>>

Next ==
    \/ Discover
    \/ ReadFile
    \/ CheckHeaders
    \/ EnsureDirectory
    \/ Merge
    \/ AppendGrossSalaryHeader
    \/ Stat
    \/ Write

Spec == Init /\ [][Next]_vars

(***************************************************************************)
(* Vocabulary of the properties.                                           *)
(***************************************************************************)
Entered(step) == \E i \in 1..Len(stages) : stages[i] = step

Terminated == pc \in {"Done", "Failed"}

RECURSIVE Flatten(_)
Flatten(seqs) == IF seqs = <<>> THEN <<>> ELSE Head(seqs) \o Flatten(Tail(seqs))

\* the data rows found on disk, files in discovery order, rows in file order
InputRows == Flatten([i \in 1..Len(disk) |-> disk[i].rows])

\* the original fields of a derived row
Original(drow) == SubSeq(drow, 1, Len(drow) - 1)

FirstOccurrence(seq, x) ==
    CHOOSE i \in 1..Len(seq) : seq[i] = x /\ \A j \in 1..(i - 1) : seq[j] # x

Range(seq) == {seq[i] : i \in 1..Len(seq)}

\* the gross salaries Python computes for the well-formed rows of the model
KnownGross(row) ==
    CASE row = RowA -> 100
      [] row = RowB -> 200
      [] row = RowC -> 200
      [] row = RowD -> 3500

WellFormedRows == {RowA, RowB, RowC, RowD}

TooShort(row) == Len(row) < 7

NotInteger(row, i) == HasItem(row, i) /\ ~PyInt(Item(row, i)).ok

Malformed(row) == TooShort(row) \/ NotInteger(row, 5) \/ NotInteger(row, 6)

\* the merge has returned its rows
Merged == Entered("Header")

\* the statistics have been returned
StatDone == Entered("Write")

GrossSalaries == [k \in 1..Len(unique_rows) |-> unique_rows[k][Len(unique_rows[k])]]

(***************************************************************************)
(* Properties.                                                             *)
(***************************************************************************)
\* C1: the merged output holds exactly one row per distinct field tuple of
\* the input, whether the copies sit in one file or in several; no two output
\* rows have the same original fields; without any repeated tuple the output
\* has as many rows as the input files together.
C1_OneRowPerDistinctTuple ==
    Merged =>
        /\ \A i \in 1..Len(InputRows) :
              Cardinality({k \in 1..Len(unique_rows) :
                              Original(unique_rows[k]) = InputRows[i]}) = 1
        /\ \A k \in 1..Len(unique_rows) :
              Original(unique_rows[k]) \in Range(InputRows)
        /\ \A k, l \in 1..Len(unique_rows) :
              Original(unique_rows[k]) = Original(unique_rows[l]) => k = l
        /\ (Cardinality(Range(InputRows)) = Len(InputRows)
              => Len(unique_rows)
                   = SumSeq([i \in 1..Len(disk) |-> Len(disk[i].rows)]))

\* a row repeated inside the first file and again in the second, merged to one
C1_Witness ==
    /\ pc = "Header"
    /\ Len(disk) = 2
    /\ Len(disk[1].rows) = 2
    /\ disk[1].rows[1] = disk[1].rows[2]
    /\ disk[2].rows = <<disk[1].rows[1]>>
    /\ Len(unique_rows) = 1

\* C2: every output row is an input row, fields unchanged and in order,
\* followed by exactly one field, int(field 5) + int(field 6); the gross
\* salary is computed once per retained row and never for a skipped duplicate.
C2_GrossSalaryAppended ==
    Merged =>
        /\ \A k \in 1..Len(unique_rows) :
              \E i \in 1..Len(InputRows) :
                 /\ Len(unique_rows[k]) = Len(InputRows[i]) + 1
                 /\ unique_rows[k] = Append(InputRows[i], KnownGross(InputRows[i]))
        /\ computed = Len(unique_rows)
        /\ computed = Cardinality(Range(InputRows))

\* basic salary 3000 and allowances 500 give 3500, with a duplicate skipped
C2_Witness ==
    /\ pc = "Header"
    /\ InputRows = <<RowD, RowA, RowD>>
    /\ unique_rows = <<Append(RowD, 3500), Append(RowA, 100)>>
    /\ computed = 2

\* C3: second_highest is the second largest distinct gross salary, whatever
\* the number of rows that share the maximum; non-empty rows with fewer than
\* two distinct gross salaries end the statistics with IndexError and no result.
C3_SecondHighestDistinct ==
    /\ StatDone =>
          /\ second_highest_salary \in Range(GrossSalaries)
          /\ \E m \in Range(GrossSalaries) :
                /\ second_highest_salary < m
                /\ \A g \in Range(GrossSalaries) :
                      g <= m /\ (g < m => g <= second_highest_salary)
    /\ (Entered("Stat") /\ pc # "Stat" /\ unique_rows # <<>>
          /\ Cardinality(Range(GrossSalaries)) < 2)
         => /\ pc = "Failed"
            /\ err = IndexError
            /\ ~StatDone
            /\ second_highest_salary = 0
            /\ average_salary = 0
    /\ (Entered("Stat") /\ pc # "Stat" /\ Cardinality(Range(GrossSalaries)) >= 2)
         => StatDone

\* two rows share the maximum 200; the second highest is 100
C3_Witness ==
    /\ pc = "Write"
    /\ GrossSalaries = <<200, 100, 200>>
    /\ second_highest_salary = 100

\* C4 as stated: zero rows end the statistics with the division by zero
C4_EmptyRaisesZeroDivision ==
    (Entered("Stat") /\ pc # "Stat" /\ unique_rows = <<>>)
      => pc = "Failed" /\ err = ZeroDivisionError

\* C4, amended: zero rows end the statistics with the IndexError of the
\* access to the sorted distinct salaries, which comes before the division;
\* the statistics never raise ZeroDivisionError.
C4_EmptyRaisesIndexError ==
    /\ (Entered("Stat") /\ pc # "Stat" /\ unique_rows = <<>>)
         => pc = "Failed" /\ err = IndexError /\ ~StatDone
    /\ err # ZeroDivisionError

\* files with a header and no data row: the statistics fail on zero rows
C4_Witness ==
    /\ pc = "Failed"
    /\ stages[Len(stages) - 1] = "Stat"
    /\ unique_rows = <<>>
    /\ Len(disk) = 2

\* C5 as stated: a failed run has written nothing, and result/ is created
\* only in the Write step
C5_FailedRunWritesNothing ==
    /\ pc = "Failed" => outFile = NoFile /\ dirExists = dirExisted
    /\ dirExists # dirExisted => Entered("Write")

\* C5, amended: a run that fails before the Write step has created no output
\* file; result/ is created, when missing, once all files are read and before
\* Merge, so that a run failing in Discover or ReadAll leaves no directory
\* and one failing in Merge or Stat leaves the directory without a file.
C5_NoFileBeforeWrite ==
    /\ outFile # NoFile => Entered("Write")
    /\ outFile.kind = "workbook" <=> pc = "Done"
    /\ dirExists # dirExisted => Entered("Merge")
    /\ Entered("Merge") => dirExists

\* the merge fails and leaves behind the directory the run has created
C5_Witness ==
    /\ pc = "Failed"
    /\ stages[Len(stages) - 1] = "Merge"
    /\ ~dirExisted
    /\ dirExists
    /\ outFile = NoFile

\* C6: a malformed input row (fewer than 7 fields, or a field 5 or 6 that is
\* no integer) makes the merge raise the error of the first such row and
\* return no row, even after well-formed rows; the run fails, Stat and Write
\* are not entered and no output file is created.  The error is ValueError
\* when a field 5 or 6 the row has is no integer, IndexError otherwise.
C6_MalformedRowAborts ==
    (Entered("Merge") /\ pc # "Merge"
       /\ \E i \in 1..Len(InputRows) : Malformed(InputRows[i]))
      => LET bad == CHOOSE i \in 1..Len(InputRows) :
                       /\ Malformed(InputRows[i])
                       /\ \A j \in 1..(i - 1) : ~Malformed(InputRows[j])
             row == InputRows[bad]
         IN  /\ pc = "Failed"
             /\ stages[Len(stages) - 1] = "Merge"
             /\ err = IF NotInteger(row, 5) \/ NotInteger(row, 6)
                      THEN ValueError ELSE IndexError
             /\ err = IndexError => TooShort(row)
             /\ unique_rows = <<>>
             /\ ~Entered("Stat")
             /\ ~Entered("Write")
             /\ outFile = NoFile

\* allowances "abc" in the last row, after two well-formed rows
C6_Witness ==
    /\ pc = "Failed"
    /\ err = ValueError
    /\ InputRows = <<RowA, RowB, RowV>>
    /\ unique_rows = <<>>

\* C7: without a name ending in ".dat" main goes from Discover to Failed
\* with the RuntimeError of the bare raise: no file is read, no later step is
\* entered, neither result/ nor the output file is created.
C7_NoInputFiles ==
    (pc # "Discover" /\ \A i \in 1..Len(listing) : listing[i] \notin Range(DatNames))
      => /\ pc = "Failed"
         /\ err = RuntimeError
         /\ stages = <<"Discover", "Failed">>
         /\ input_files = <<>>
         /\ disk = <<>>
         /\ dirExists = dirExisted
         /\ outFile = NoFile

\* a directory with names, none of which ends in ".dat"
C7_Witness ==
    /\ pc = "Failed"
    /\ listing = OtherNames
    /\ err = RuntimeError

\* C8: the output rows are in the order of their first occurrences in the
\* concatenation of the files.
C8_FirstOccurrenceOrder ==
    Merged =>
        \A k, l \in 1..Len(unique_rows) :
            k < l <=> FirstOccurrence(InputRows, Original(unique_rows[k]))
                        < FirstOccurrence(InputRows, Original(unique_rows[l]))

\* the second file repeats the first file's row before a new, smaller row
C8_Witness ==
    /\ pc = "Header"
    /\ Len(disk) = 2
    /\ disk[1].rows = <<RowB>>
    /\ disk[2].rows = <<RowB, RowA>>
    /\ unique_rows = <<Append(RowB, 200), Append(RowA, 100)>>

\* C9: the average is the sum of the gross salaries of all rows, a shared
\* value counted once per row, divided by the row count and rounded to one
\* decimal place (held in tenths).
C9_AverageOverAllRows ==
    StatDone =>
        LET n == Len(unique_rows)
            total == SumSeq(GrossSalaries)
            diff == 10 * total - n * average_salary
        IN  /\ n > 0
            /\ 2 * diff <= n
            /\ 2 * diff >= 0 - n

\* gross salaries 100, 200, 200: the average is 166.7, not 150.0
C9_Witness ==
    /\ pc = "Write"
    /\ GrossSalaries = <<100, 200, 200>>
    /\ average_salary = 1667

\* C10: with different headers, well-formed rows and two distinct gross
\* salaries the run does not fail for the mismatch: a warning is logged, the
\* rows of every file are merged, and, unless the workbook itself raises, the
\* run ends Done with the first file's header followed by one "Gross Salary".
C10_HeaderMismatchTolerated ==
    (/\ Len(disk) = 2
     /\ disk[1].kind = "ok" /\ disk[2].kind = "ok"
     /\ disk[1].header # disk[2].header
     /\ Range(InputRows) \subseteq WellFormedRows
     /\ Cardinality({KnownGross(r) : r \in Range(InputRows)}) >= 2)
      => /\ pc = "Failed" => err = WorkbookError
         /\ pc \notin {"Discover", "ReadAll"} => warned
         /\ pc = "Done" =>
               /\ outFile.kind = "workbook"
               /\ outFile.header = Append(disk[1].header, GrossSalaryColumn)
               /\ Len(outFile.header) = Len(disk[1].header) + 1
               /\ Len(outFile.rows) = Cardinality(Range(InputRows))
               /\ \A r \in Range(InputRows) :
                     \E k \in 1..Len(outFile.rows) : Original(outFile.rows[k]) = r

\* the second header differs from the first; the first one is written
C10_Witness ==
    /\ pc = "Done"
    /\ Len(disk) = 2
    /\ disk[1].header = Header2
    /\ disk[2].header = Header1
    /\ warned
    /\ outFile.header = Append(Header2, GrossSalaryColumn)

====
